---- MODULE Spec2Model ----
(***************************************************************************)
(* Model of the mailcow SCIM bridge (src/app/main.py): the users and       *)
(* metrics tables, the SCIM /Users handlers, the /Groups stubs and the     *)
(* mailcow client calls the handlers await.  A handler is one action per   *)
(* stretch of code between two suspension points (the awaits on the        *)
(* mailcow client).                                                        *)
(***************************************************************************)
EXTENDS Integers, Sequences, FiniteSets, TLC

VARIABLES
    users,      \* table users, rows in rowid order
    metrics,    \* table metrics: name -> value
    mailboxes,  \* the mailcow side: address -> attributes, or NoMailbox
    env,        \* the process environment read at import (lines 44-45)
    reqs,       \* per connection: Idle, the frame of the coroutine awaiting mailcow,
                \* or the response being sent
    nextUuid,   \* how many uuid4 values have been drawn
    mails,      \* input of the stand-alone run of get_primary_mail
    resolved,   \* its result
    calls,      \* per connection: the mailcow calls the running handler has issued
    boots       \* how many times the module was imported (process starts)

vars == <<users, metrics, mailboxes, env, reqs, nextUuid, mails, resolved, calls, boots>>

(***************************************************************************)
(* Bounds of the model.                                                    *)
(***************************************************************************)
MaxCreates == 2     \* uuid4 values available, so at most this many records
MaxUpdates == 2     \* Update requests are accepted while users_updated is below this
MaxLen == 3         \* longest email list given to get_primary_mail on its own
MaxRestarts == 1    \* process restarts

(***************************************************************************)
(* Values.                                                                 *)
(***************************************************************************)
None == "None"                  \* Python None, SQL NULL, an absent JSON member
KeyError == "KeyError"          \* an uncaught exception of that name
NotRun == "NotRun"

UuidLen == 36                   \* len(str(uuid.uuid4()))
Uuids == {"u1", "u2", "u3"}     \* the values uuid4 returns, in the order drawn
UuidAt(n) == CASE n = 1 -> "u1" [] n = 2 -> "u2" [] OTHER -> "u3"
ShortId == "x"                  \* a one-character path segment
PathIds == {"u1", "u2", ShortId}
IdLen(id) == IF id \in Uuids THEN UuidLen ELSE 1

Addresses == {"a@x", "b@x"}
\* email.split("@")
split(email) == CASE email = "a@x" -> <<"a", "x">>
                  [] email = "b@x" -> <<"b", "x">>
\* the mailbox mailcow names local_part@domain
Mailbox(local_part, domain) ==
    CASE local_part = "a" /\ domain = "x" -> "a@x"
      [] local_part = "b" /\ domain = "x" -> "b@x"

UserNames == {"alice", "bob"}
ExternalIds == {None, "e1"}
BodyIds == {None, "u1", "u2"}

Entry(v, p) == [value |-> v, primary |-> p]
\* The email lists requests carry: empty, unflagged, flagged, flagged second.
True == "true"                  \* JSON true / Python True inside an email entry
False == "false"
EmailLists == { <<>>,
                <<Entry("a@x", None)>>,
                <<Entry("a@x", True)>>,
                <<Entry("a@x", False), Entry("b@x", True)>> }

\* class SCIMUser, as parsed from a request body.  The request bodies of the model
\* carry one of two attribute sets: active as "Ann", or inactive as "Bea".
Profiles == {<<TRUE, "Ann">>, <<FALSE, "Bea">>}
SCIMUser == {[id |-> i, externalId |-> e, active |-> p[1], userName |-> n,
              displayName |-> p[2], emails |-> m] :
                 i \in BodyIds, e \in ExternalIds, p \in Profiles,
                 n \in UserNames, m \in EmailLists}

\* f"Bearer {SCIM_TOKEN}"
Bearer == "Bearer t"
Authorizations == {Bearer, "Bearer z", None}

\* os.getenv(name, default): the default when the variable is unset, else its string
Unset == "<unset>"
EnvValues == {Unset, "", "false", "true"}
PyBool(b) == <<"bool", b>>
PyStr(str) == <<"str", str>>
getenv(value, default) == IF value = Unset THEN default ELSE PyStr(value)
\* Python truth of a bool or of a string (a string is false only when empty)
Truth(v) == IF v[1] = "bool" THEN v[2] ELSE v[2] # ""
ALLOW_DELETE == getenv(env.ALLOW_DELETE, PyBool(TRUE))
MAILCOW_DELETE_MAILBOX == getenv(env.MAILCOW_DELETE_MAILBOX, PyBool(FALSE))

(***************************************************************************)
(* Conversions between Python values and column values.                    *)
(***************************************************************************)
int(b) == IF b THEN 1 ELSE 0
\* A conversion that takes 0 for true as well.
bool_of_any(n) == n >= 0
bool(n) == n # 0
json_dumps(v) == [text |-> v]
json_loads(t) == t.text

(***************************************************************************)
(* get_primary_mail (lines 158-164).  The loop returns the value of the    *)
(* first entry whose primary is True; after the loop `mail` is the last    *)
(* entry, a dict, and mail[0] raises KeyError.                             *)
(***************************************************************************)
get_primary_mail(ms) ==
    IF Len(ms) < 1 THEN None
    ELSE LET flagged == {i \in 1..Len(ms) : ms[i].primary = True}
         IN  IF flagged # {}
             THEN ms[CHOOSE i \in flagged : \A j \in flagged : i <= j].value
             ELSE KeyError

(***************************************************************************)
(* The sqlite tables.                                                      *)
(***************************************************************************)
Rows == 1..Len(users)
\* SELECT ... FROM users WHERE id = ?   (id is the PRIMARY KEY; NULL matches nothing)
RowsWithId(id) == {i \in Rows : id # None /\ users[i].id = id}
\* SELECT 1 FROM users WHERE scimId = ? OR userName = ?   (line 171)
exists(externalId, userName) ==
    \E i \in Rows : \/ externalId # None /\ users[i].scimId = externalId
                    \/ users[i].userName = userName
\* INSERT INTO users: id is the PRIMARY KEY, userName is UNIQUE (lines 63-73)
InsertViolates(row) ==
    \E i \in Rows : users[i].id = row.id \/ users[i].userName = row.userName
\* Update users SET ... WHERE id = ?: the UNIQUE userName of another row
UpdateViolates(id, userName) ==
    \E i \in RowsWithId(id) : \E j \in Rows : j # i /\ users[j].userName = userName
UpdateRows(id, set) ==
    [i \in Rows |-> IF i \in RowsWithId(id)
                    THEN [set EXCEPT !.id = users[i].id]
                    ELSE users[i]]
\* DELETE FROM users WHERE id = ?
DeleteRows(id) == SelectSeq(users, LAMBDA r : r.id # id)
\* UPDATE metrics SET value = value + 1 WHERE name = ?
Increment(name) == [metrics EXCEPT ![name] = @ + 1]
\* cursor.execute(sql, (id)): the str is taken as the sequence of parameters,
\* one per character, and the statement has one placeholder
BindsOne(id) == IdLen(id) = 1

(***************************************************************************)
(* The mailcow API as the client sees it: a status code and a body.  A     *)
(* call succeeds only on a mailbox in the state the call needs; it may     *)
(* fail in any state.                                                      *)
(***************************************************************************)
NoMailbox == [exists |-> FALSE, active |-> FALSE, name |-> None]
RemoteOutcomes == {"success", "http_error", "unparseable", "empty_list", "danger"}
JsonList(items) == [t |-> "list", items |-> items]
JsonNone == [t |-> "none", items |-> <<>>]
Invalid == [t |-> "invalid", items |-> <<>>]
Response(outcome, ack) ==
    CASE outcome = "success" ->
            [code |-> 200, body |-> JsonList(<<[type |-> "success", msg |-> <<"ok", ack>>]>>)]
      [] outcome = "danger" ->
            [code |-> 200, body |-> JsonList(<<[type |-> "danger", msg |-> <<"err", None>>]>>)]
      [] outcome = "empty_list" -> [code |-> 200, body |-> JsonList(<<>>)]
      [] outcome = "unparseable" -> [code |-> 200, body |-> Invalid]
      [] outcome = "http_error" ->
            [code |-> 500, body |-> JsonList(<<[type |-> "error", msg |-> <<"err", None>>]>>)]

\* add/mailbox: the new mailbox is active ("active": "1") whatever user.active is
AddMailbox(local_part, domain, name) ==
    [mailboxes EXCEPT ![Mailbox(local_part, domain)] =
        [exists |-> TRUE, active |-> TRUE, name |-> name]]
\* edit/mailbox: the attributes sent are set (SCIMUser.active is a required bool,
\* so "active" is always sent; "name" is sent unless displayName is None)
EditMailbox(id, active, name) ==
    [mailboxes EXCEPT ![id] = [exists |-> TRUE,
                               active |-> active,
                               name |-> IF name # None THEN name ELSE @.name]]
\* edit/rename-mbox
RenameMailbox(id, local_part, domain) ==
    [mailboxes EXCEPT ![id] = NoMailbox, ![Mailbox(local_part, domain)] = mailboxes[id]]
\* delete/mailbox
DropMailbox(id) == [mailboxes EXCEPT ![id] = NoMailbox]

\* What the client function returns: resp.status_code and resp.json().
\* create_mailbox catches the ValueError of an unparseable body (lines 432-435);
\* update_mailbox, rename_mailbox and delete_mailbox do not (lines 453, 470, 478).
Returned(code, json) == [raised |-> FALSE, code |-> code, json |-> json]
Raised == [raised |-> TRUE, code |-> 0, json |-> JsonNone]
create_mailbox(r) ==
    IF r.body = Invalid THEN Returned(r.code, JsonNone) ELSE Returned(r.code, r.body)
\* A client function that reports success whatever mailcow answered.
update_mailbox_swallowing(r) ==
    Returned(200, JsonList(<<[type |-> "success", msg |-> <<"ok", None>>]>>))
update_mailbox(r) == IF r.body = Invalid THEN Raised ELSE Returned(r.code, r.body)
rename_mailbox(r) == IF r.body = Invalid THEN Raised ELSE Returned(r.code, r.body)
delete_mailbox(r) == IF r.body = Invalid THEN Raised ELSE Returned(r.code, r.body)

\* The test without its last conjunct: any non-empty list of a 200 passes.
SucceededWhateverType(c) ==
    /\ c.code = 200
    /\ c.json.t = "list" /\ Len(c.json.items) > 0

\* code == 200 and resp and resp[0]["type"] == "success"
Succeeded(c) ==
    /\ c.code = 200
    /\ c.json.t = "list" /\ Len(c.json.items) > 0
    /\ c.json.items[1].type = "success"

(***************************************************************************)
(* Requests: coroutine frames and responses.                               *)
(***************************************************************************)
Idle == [op |-> "idle", pc |-> "idle"]
Frame(op, pc, user_id, user, email, mailcow_id) ==
    [op |-> op, pc |-> pc, user_id |-> user_id, user |-> user,
     email |-> email, mailcow_id |-> mailcow_id]
\* What a response is about: the path id and, of the body, the id, the
\* uniqueness keys and the email list.
Nothing == [user_id |-> None]
AboutId(user_id) == [user_id |-> user_id]
AboutUser(user_id, user) ==
    [user_id |-> user_id, id |-> user.id, externalId |-> user.externalId,
     userName |-> user.userName, emails |-> user.emails]
AboutPage(index, count) == [index |-> index, count |-> count]
NoOutput == [t |-> "none"]
\* A response: the status, the uncaught exception behind a 500 (or None), the
\* body, and the outcome of the last mailcow call the handler made (or None).
Reply(op, status, error, about, out, remote) ==
    [op |-> op, pc |-> "done", status |-> status, error |-> error, about |-> about,
     out |-> out, remote |-> remote]
Enter(s, frame) == reqs' = [reqs EXCEPT ![s] = frame]
InFlight(op) == Cardinality({s \in DOMAIN reqs : reqs[s].op = op /\ reqs[s].pc # "done"})

\* The calls of a handler: `await client.post(...)` is entered with the call sent
\* and left with its outcome.
Pending == "pending"
Call(action, outcome) == [action |-> action, outcome |-> outcome]
Issued(log, frame) ==
    IF frame.pc \notin {"idle", "done"} THEN Append(log, Call(frame.pc, Pending)) ELSE log
Answered(log, outcome) == [log EXCEPT ![Len(log)].outcome = outcome]

(***************************************************************************)
(* POST /Users: post_user_endpoint and create_user up to the await of      *)
(* create_mailbox (lines 501-505, 166-180).                                *)
(***************************************************************************)
create_user(s, user) ==
    LET email == get_primary_mail(user.emails)
        Fail(status, error) ==
            Enter(s, Reply("create", status, error, AboutUser(None, user), NoOutput, None))
    IN  /\ IF email = KeyError THEN Fail(500, KeyError)
           ELSE IF email = None THEN Fail(400, None)
           ELSE IF exists(user.externalId, user.userName) THEN Fail(409, None)
           ELSE Enter(s, Frame("create", "create_mailbox", None, user, email, None))
        /\ UNCHANGED <<users, metrics, mailboxes, nextUuid>>

\* The endpoint without lines 503-504.
post_user_endpoint_unchecked(s, authorization, user) ==
    /\ reqs[s] = Idle
    /\ nextUuid + InFlight("create") < MaxCreates
    /\ create_user(s, user)
    /\ calls' = [calls EXCEPT ![s] = Issued(<<>>, reqs'[s])]
    /\ UNCHANGED <<env, mails, resolved, boots>>

post_user_endpoint(s, authorization, user) ==
    /\ reqs[s] = Idle
    /\ nextUuid + InFlight("create") < MaxCreates
    /\ IF authorization # Bearer
       THEN /\ Enter(s, Reply("create", 401, None, Nothing, NoOutput, None))
            /\ UNCHANGED <<users, metrics, mailboxes, nextUuid>>
       ELSE create_user(s, user)
    /\ calls' = [calls EXCEPT ![s] = Issued(<<>>, reqs'[s])]
    /\ UNCHANGED <<env, mails, resolved, boots>>

(***************************************************************************)
(* create_user after create_mailbox returned (lines 180-209).              *)
(***************************************************************************)
create_mailbox_returns(s, outcome) ==
    LET f == reqs[s]
        local_part == split(f.email)[1]
        domain == split(f.email)[2]
        c == create_mailbox(Response(outcome, Mailbox(local_part, domain)))
        id == UuidAt(nextUuid + 1)
        row == [id |-> id,
                mailcowId |-> c.json.items[1].msg[2],
                scimId |-> f.user.externalId,
                active |-> int(f.user.active),
                userName |-> f.user.userName,
                displayName |-> f.user.displayName,
                emails |-> json_dumps(f.user.emails)]
        Fail(status, error) ==
            /\ Enter(s, Reply("create", status, error, AboutUser(None, f.user), NoOutput,
                              outcome))
            /\ UNCHANGED <<users, metrics>>
    IN  /\ outcome = "success" => ~mailboxes[Mailbox(local_part, domain)].exists
        /\ mailboxes' = IF outcome = "success"
                        THEN AddMailbox(local_part, domain, f.user.displayName)
                        ELSE mailboxes
        /\ IF ~Succeeded(c)
           THEN Fail(502, None) /\ UNCHANGED nextUuid
           ELSE /\ nextUuid' = nextUuid + 1
                /\ IF InsertViolates(row)
                   THEN Fail(500, "IntegrityError")
                   ELSE /\ users' = Append(users, row)
                        /\ metrics' = Increment("users_created")
                        /\ Enter(s, Reply("create", 201, None, AboutUser(None, f.user),
                                          [f.user EXCEPT !.id = id], outcome))

(***************************************************************************)
(* PUT /Users/{user_id}: put_user_endpoint and update_user up to the await *)
(* of update_mailbox (lines 508-512, 328-348).                             *)
(***************************************************************************)
update_user(s, id, user) ==
    LET email == get_primary_mail(user.emails)
        Fail(status, error) ==
            Enter(s, Reply("update", status, error, AboutUser(id, user), NoOutput, None))
    IN  /\ IF email = KeyError THEN Fail(500, KeyError)
           ELSE IF email = None THEN Fail(400, None)
           ELSE IF RowsWithId(id) = {} THEN Fail(404, None)
           ELSE LET row == users[CHOOSE i \in RowsWithId(id) : TRUE]
                IN  Enter(s, Frame("update", "update_mailbox", id, user, email,
                                   row.mailcowId))
        /\ UNCHANGED <<users, metrics, mailboxes, nextUuid>>

put_user_endpoint(s, authorization, user_id, user) ==
    /\ reqs[s] = Idle
    /\ metrics["users_updated"] + InFlight("update") < MaxUpdates
    /\ IF authorization # Bearer
       THEN /\ Enter(s, Reply("update", 401, None, Nothing, NoOutput, None))
            /\ UNCHANGED <<users, metrics, mailboxes, nextUuid>>
       ELSE update_user(s, user_id, user)
    /\ calls' = [calls EXCEPT ![s] = Issued(<<>>, reqs'[s])]
    /\ UNCHANGED <<env, mails, resolved, boots>>

(***************************************************************************)
(* The UPDATE of update_user, its counter and the commit (lines 368-393).  *)
(* The row is chosen by user.id, the id member of the request body.        *)
(***************************************************************************)
UpdateKey(f) == f.user.id

update_commit(s, f, mailcow_id, outcome) ==
    LET set == [id |-> None,
                mailcowId |-> mailcow_id,
                scimId |-> f.user.externalId,
                active |-> int(f.user.active),
                userName |-> f.user.userName,
                displayName |-> f.user.displayName,
                emails |-> json_dumps(f.user.emails)]
    IN  IF UpdateViolates(UpdateKey(f), f.user.userName)
        THEN /\ Enter(s, Reply("update", 500, "IntegrityError",
                               AboutUser(f.user_id, f.user), NoOutput, outcome))
             /\ UNCHANGED <<users, metrics>>
        ELSE /\ users' = UpdateRows(UpdateKey(f), set)
             /\ metrics' = Increment("users_updated")
             /\ Enter(s, Reply("update", 200, None, AboutUser(f.user_id, f.user), f.user,
                               outcome))

(***************************************************************************)
(* update_user after update_mailbox returned (lines 348-358, 368-393).     *)
(***************************************************************************)
update_mailbox_returns(s, outcome) ==
    LET f == reqs[s]
        c == update_mailbox(Response(outcome, f.mailcow_id))
        Fail(status, error) ==
            /\ Enter(s, Reply("update", status, error, AboutUser(f.user_id, f.user),
                              NoOutput, outcome))
            /\ UNCHANGED <<users, metrics>>
    IN  /\ outcome = "success" => mailboxes[f.mailcow_id].exists
        /\ mailboxes' = IF outcome = "success"
                        THEN EditMailbox(f.mailcow_id, f.user.active, f.user.displayName)
                        ELSE mailboxes
        /\ IF c.raised THEN Fail(500, "JSONDecodeError")
           ELSE IF ~Succeeded(c) THEN Fail(502, None)
           ELSE IF f.email # f.mailcow_id
           THEN /\ Enter(s, [f EXCEPT !.pc = "rename_mailbox"])
                /\ UNCHANGED <<users, metrics>>
           ELSE update_commit(s, f, f.mailcow_id, outcome)
        /\ UNCHANGED nextUuid

(***************************************************************************)
(* update_user after rename_mailbox returned (lines 358-393).              *)
(***************************************************************************)
rename_mailbox_returns(s, outcome) ==
    LET f == reqs[s]
        local_part == split(f.email)[1]
        domain == split(f.email)[2]
        c == rename_mailbox(Response(outcome, Mailbox(local_part, domain)))
        Fail(status, error) ==
            /\ Enter(s, Reply("update", status, error, AboutUser(f.user_id, f.user),
                              NoOutput, outcome))
            /\ UNCHANGED <<users, metrics>>
    IN  /\ outcome = "success" => /\ mailboxes[f.mailcow_id].exists
                                  /\ ~mailboxes[Mailbox(local_part, domain)].exists
        /\ mailboxes' = IF outcome = "success"
                        THEN RenameMailbox(f.mailcow_id, local_part, domain)
                        ELSE mailboxes
        /\ IF c.raised THEN Fail(500, "JSONDecodeError")
           ELSE IF ~Succeeded(c) THEN Fail(502, None)
           ELSE update_commit(s, f, c.json.items[1].msg[2], outcome)
        /\ UNCHANGED nextUuid

(***************************************************************************)
(* DELETE /Users/{user_id}: delete_user_endpoint and delete_user up to the *)
(* await of delete_mailbox, or to its end (lines 515-519, 280-300,         *)
(* 318-326).  The SELECT and the DELETE bind (id), the string itself.      *)
(***************************************************************************)
delete_commit(s, id, outcome) ==
    IF ~BindsOne(id)
    THEN /\ Enter(s, Reply("delete", 500, "ProgrammingError", AboutId(id), NoOutput, outcome))
         /\ UNCHANGED <<users, metrics>>
    ELSE /\ users' = DeleteRows(id)
         /\ metrics' = Increment("users_deleted")
         /\ Enter(s, Reply("delete", 204, None, AboutId(id), NoOutput, outcome))

delete_user(s, id) ==
    LET Fail(status, error) ==
            /\ Enter(s, Reply("delete", status, error, AboutId(id), NoOutput, None))
            /\ UNCHANGED <<users, metrics>>
    IN  /\ IF ~Truth(ALLOW_DELETE) THEN Fail(403, None)
           ELSE IF ~BindsOne(id) THEN Fail(500, "ProgrammingError")
           ELSE IF RowsWithId(id) = {} THEN Fail(404, None)
           ELSE LET row == users[CHOOSE i \in RowsWithId(id) : TRUE]
                IN  IF Truth(MAILCOW_DELETE_MAILBOX)
                    THEN /\ Enter(s, Frame("delete", "delete_mailbox", id, None, None,
                                           row.mailcowId))
                         /\ UNCHANGED <<users, metrics>>
                    ELSE delete_commit(s, id, None)
        /\ UNCHANGED <<mailboxes, nextUuid>>

delete_user_endpoint(s, authorization, user_id) ==
    /\ reqs[s] = Idle
    /\ IF authorization # Bearer
       THEN /\ Enter(s, Reply("delete", 401, None, Nothing, NoOutput, None))
            /\ UNCHANGED <<users, metrics, mailboxes, nextUuid>>
       ELSE delete_user(s, user_id)
    /\ calls' = [calls EXCEPT ![s] = Issued(<<>>, reqs'[s])]
    /\ UNCHANGED <<env, mails, resolved, boots>>

(***************************************************************************)
(* delete_user after delete_mailbox returned (lines 301-317).              *)
(***************************************************************************)
delete_mailbox_returns(s, outcome) ==
    LET f == reqs[s]
        c == delete_mailbox(Response(outcome, f.mailcow_id))
        Fail(status, error) ==
            /\ Enter(s, Reply("delete", status, error, AboutId(f.user_id), NoOutput, outcome))
            /\ UNCHANGED <<users, metrics>>
    IN  /\ outcome = "success" => mailboxes[f.mailcow_id].exists
        /\ mailboxes' = IF outcome = "success" THEN DropMailbox(f.mailcow_id) ELSE mailboxes
        /\ IF c.raised THEN Fail(500, "JSONDecodeError")
           ELSE IF ~Succeeded(c) THEN Fail(502, None)
           ELSE delete_commit(s, f.user_id, outcome)
        /\ UNCHANGED nextUuid

(***************************************************************************)
(* A mailcow call returns to the coroutine awaiting it.                    *)
(***************************************************************************)
Awaiting(s) == reqs[s].pc \notin {"idle", "done"}

mailcow_returns(s, outcome) ==
    /\ Awaiting(s)
    /\ CASE reqs[s].pc = "create_mailbox" -> create_mailbox_returns(s, outcome)
         [] reqs[s].pc = "update_mailbox" -> update_mailbox_returns(s, outcome)
         [] reqs[s].pc = "rename_mailbox" -> rename_mailbox_returns(s, outcome)
         [] reqs[s].pc = "delete_mailbox" -> delete_mailbox_returns(s, outcome)
    /\ calls' = [calls EXCEPT ![s] = Issued(Answered(@, outcome), reqs'[s])]
    /\ UNCHANGED <<env, mails, resolved, boots>>

(***************************************************************************)
(* GET /Users/{user_id}: get_user_endpoint and get_user (lines 489-493,    *)
(* 218-245).                                                               *)
(***************************************************************************)
Resource(id, row) ==
    [id |-> id, externalId |-> row.scimId, active |-> bool(row.active),
     userName |-> row.userName, displayName |-> row.displayName,
     emails |-> json_loads(row.emails)]

get_user(id) ==
    IF RowsWithId(id) = {}
    THEN Reply("read", 404, None, AboutId(id), NoOutput, None)
    ELSE Reply("read", 200, None, AboutId(id),
               Resource(id, users[CHOOSE i \in RowsWithId(id) : TRUE]), None)

get_user_endpoint(s, authorization, user_id) ==
    /\ reqs[s] = Idle
    /\ Enter(s, IF authorization # Bearer
                THEN Reply("read", 401, None, Nothing, NoOutput, None)
                ELSE get_user(user_id))
    /\ UNCHANGED <<users, metrics, mailboxes, env, nextUuid, mails, resolved, calls, boots>>

(***************************************************************************)
(* GET /Users: get_users_endpoint and get_users (lines 495-499, 247-278).  *)
(* Every row of the page is built with id=id, and get_users binds no `id`: *)
(* it is the builtin function, which SCIMUser (id: Optional[str]) refuses  *)
(* with a ValidationError.                                                 *)
(***************************************************************************)
Max(a, b) == IF a >= b THEN a ELSE b
Min(a, b) == IF a <= b THEN a ELSE b
\* SELECT ... FROM users LIMIT ? OFFSET ?   (a negative LIMIT is no limit)
Page(count, offset) ==
    SubSeq(users, offset + 1,
           IF count < 0 THEN Len(users) ELSE Min(offset + count, Len(users)))
BuiltinId == "<built-in function id>"
\* id: Optional[str]
AcceptsId(id) == id # BuiltinId

get_users(index, count) ==
    LET offset == Max(index - 1, 0)
        total == Len(users)
        rows == Page(count, offset)
    IN  IF \E i \in 1..Len(rows) : ~AcceptsId(BuiltinId)
        THEN Reply("list", 500, "ValidationError", AboutPage(index, count), NoOutput, None)
        ELSE Reply("list", 200, None, AboutPage(index, count),
                   [totalResults |-> total,
                    itemsPerPage |-> Len(rows),
                    startIndex |-> index,
                    Resources |-> [i \in 1..Len(rows) |-> Resource(BuiltinId, rows[i])]],
                   None)

Indexes == {0, 1, 2}
Counts == {0, 1, 100}

get_users_endpoint(s, authorization, index, count) ==
    /\ reqs[s] = Idle
    /\ Enter(s, IF authorization # Bearer
                THEN Reply("list", 401, None, Nothing, NoOutput, None)
                ELSE get_users(index, count))
    /\ UNCHANGED <<users, metrics, mailboxes, env, nextUuid, mails, resolved, calls, boots>>

(***************************************************************************)
(* The /Groups endpoints (lines 521-559): stubs that touch neither table   *)
(* and call nothing.  Two functions are named patch_group_endpoint; the    *)
(* second, the DELETE route, is delete_group_endpoint here.                *)
(***************************************************************************)
GroupIds == {"g1"}
SCIMGroup == {[id |-> None, externalId |-> None, displayName |-> "staff", members |-> None]}

GroupReply(s, authorization, op, about, out) ==
    /\ reqs[s] = Idle
    /\ Enter(s, IF authorization # Bearer
                THEN Reply(op, 401, None, Nothing, NoOutput, None)
                ELSE Reply(op, IF op = "group_create" THEN 201
                               ELSE IF op = "group_delete" THEN 204 ELSE 200,
                           None, about, out, None))
    /\ UNCHANGED <<users, metrics, mailboxes, env, nextUuid, mails, resolved, calls, boots>>

get_group_endpoint(s, authorization, group_id) ==
    GroupReply(s, authorization, "group_read", AboutId(group_id),
               [id |-> group_id, externalId |-> None, displayName |-> group_id,
                members |-> <<>>])

get_groups_endpoint(s, authorization, index, count) ==
    GroupReply(s, authorization, "group_list", AboutPage(index, count),
               [totalResults |-> 0, itemsPerPage |-> 0, startIndex |-> index,
                Resources |-> <<>>])

post_group_endpoint(s, authorization, group) ==
    GroupReply(s, authorization, "group_create", Nothing, group)

patch_group_endpoint(s, authorization, group_id, group) ==
    GroupReply(s, authorization, "group_update", AboutId(group_id), group)

delete_group_endpoint(s, authorization, group_id) ==
    GroupReply(s, authorization, "group_delete", AboutId(group_id), NoOutput)

(***************************************************************************)
(* The response is sent and the connection is free for the next request.   *)
(***************************************************************************)
respond(s) ==
    /\ reqs[s].pc = "done"
    /\ reqs' = [reqs EXCEPT ![s] = Idle]
    /\ calls' = [calls EXCEPT ![s] = <<>>]
    /\ UNCHANGED <<users, metrics, mailboxes, env, nextUuid, mails, resolved, boots>>

(***************************************************************************)
(* The state after import: both tables exist, the three counters are 0     *)
(* (lines 60-112), no request is in flight.                                *)
(***************************************************************************)
Slots == {1}
Counters == {"users_created", "users_updated", "users_deleted"}

Init ==
    /\ users = <<>>
    /\ metrics = [n \in Counters |-> 0]
    /\ mailboxes = [a \in Addresses |-> NoMailbox]
    /\ env = [ALLOW_DELETE |-> Unset, MAILCOW_DELETE_MAILBOX |-> Unset]
    /\ reqs = [s \in Slots |-> Idle]
    /\ calls = [s \in Slots |-> <<>>]
    /\ boots = 1
    /\ nextUuid = 0
    /\ mails = <<>>
    /\ resolved = NotRun

\* A request refused with 401 is answered before anything of it is read.
AnyUser == CHOOSE u \in SCIMUser : TRUE
AnyId == CHOOSE id \in PathIds : TRUE
Posted == {u \in SCIMUser : u.id = None}

Next ==
    \/ \E s \in DOMAIN reqs, a \in Authorizations :
          \E u \in (IF a = Bearer THEN Posted ELSE {AnyUser}) :
             post_user_endpoint(s, a, u)
    \/ \E s \in DOMAIN reqs, a \in Authorizations :
          \E id \in (IF a = Bearer THEN PathIds ELSE {AnyId}),
             u \in (IF a = Bearer THEN SCIMUser ELSE {AnyUser}) :
             put_user_endpoint(s, a, id, u)
    \/ \E s \in DOMAIN reqs, a \in Authorizations :
          \E id \in (IF a = Bearer THEN PathIds ELSE {AnyId}) :
             delete_user_endpoint(s, a, id)
    \/ \E s \in DOMAIN reqs, o \in RemoteOutcomes : mailcow_returns(s, o)
    \/ \E s \in DOMAIN reqs, a \in Authorizations :
          \E id \in (IF a = Bearer THEN PathIds ELSE {AnyId}) :
             get_user_endpoint(s, a, id)
    \/ \E s \in DOMAIN reqs, a \in Authorizations :
          \E i \in (IF a = Bearer THEN Indexes ELSE {1}),
             c \in (IF a = Bearer THEN Counts ELSE {100}) :
             get_users_endpoint(s, a, i, c)
    \/ \E s \in DOMAIN reqs, a \in Authorizations, id \in GroupIds :
          get_group_endpoint(s, a, id)
    \/ \E s \in DOMAIN reqs, a \in Authorizations : get_groups_endpoint(s, a, 1, 100)
    \/ \E s \in DOMAIN reqs, a \in Authorizations, g \in SCIMGroup :
          post_group_endpoint(s, a, g)
    \/ \E s \in DOMAIN reqs, a \in Authorizations, id \in GroupIds, g \in SCIMGroup :
          patch_group_endpoint(s, a, id, g)
    \/ \E s \in DOMAIN reqs, a \in Authorizations, id \in GroupIds :
          delete_group_endpoint(s, a, id)
    \/ \E s \in DOMAIN reqs : respond(s)

Spec == Init /\ [][Next]_vars

(***************************************************************************)
(* The same program under every setting of the two deletion variables,     *)
(* serving the create, read and delete endpoints.                          *)
(***************************************************************************)
Environments == [ALLOW_DELETE : EnvValues, MAILCOW_DELETE_MAILBOX : EnvValues]

InitDelete ==
    /\ users = <<>>
    /\ metrics = [n \in Counters |-> 0]
    /\ mailboxes = [a \in Addresses |-> NoMailbox]
    /\ env \in Environments
    /\ reqs = [s \in Slots |-> Idle]
    /\ calls = [s \in Slots |-> <<>>]
    /\ boots = 1
    /\ nextUuid = 0
    /\ mails = <<>>
    /\ resolved = NotRun

NextDelete ==
    \/ \E s \in DOMAIN reqs, a \in Authorizations :
          \E u \in (IF a = Bearer THEN Posted ELSE {AnyUser}) :
             post_user_endpoint(s, a, u)
    \/ \E s \in DOMAIN reqs, a \in Authorizations :
          \E id \in (IF a = Bearer THEN PathIds ELSE {AnyId}) :
             delete_user_endpoint(s, a, id)
    \/ \E s \in DOMAIN reqs, o \in RemoteOutcomes : mailcow_returns(s, o)
    \/ \E s \in DOMAIN reqs, a \in Authorizations :
          \E id \in (IF a = Bearer THEN PathIds ELSE {AnyId}) :
             get_user_endpoint(s, a, id)
    \/ \E s \in DOMAIN reqs : respond(s)

SpecDelete == InitDelete /\ [][NextDelete]_vars

(***************************************************************************)
(* get_primary_mail on its own, over every list of at most MaxLen entries. *)
(***************************************************************************)
Entries == [value : Addresses, primary : {True, False, None}]
AllMails == UNION {[1..n -> Entries] : n \in 0..MaxLen}

InitResolve ==
    /\ users = <<>>
    /\ metrics = [n \in Counters |-> 0]
    /\ mailboxes = [a \in Addresses |-> NoMailbox]
    /\ env = [ALLOW_DELETE |-> Unset, MAILCOW_DELETE_MAILBOX |-> Unset]
    /\ reqs = [s \in Slots |-> Idle]
    /\ calls = [s \in Slots |-> <<>>]
    /\ boots = 1
    /\ nextUuid = 0
    /\ mails \in AllMails
    /\ resolved = NotRun

resolve ==
    /\ resolved = NotRun
    /\ resolved' = get_primary_mail(mails)
    /\ UNCHANGED <<users, metrics, mailboxes, env, reqs, nextUuid, mails, calls, boots>>

SpecResolve == InitResolve /\ [][resolve]_vars

(***************************************************************************)
(* A process restart.  The tables are in the file at DB_PATH and outlive   *)
(* the process; the import runs lines 60-112 again: CREATE TABLE IF NOT    *)
(* EXISTS, and INSERT ... ON CONFLICT(name) DO NOTHING for each counter.   *)
(* The handlers that were running are gone with their connections.  The    *)
(* requests served here are the authorized Creates and the Updates whose   *)
(* body carries the path id.                                               *)
(***************************************************************************)
\* The same statements with INSERT OR REPLACE in place of ON CONFLICT DO NOTHING.
bootstrap_replacing(table) == [n \in Counters |-> 0]

bootstrap(table) == [n \in Counters |-> IF n \in DOMAIN table THEN table[n] ELSE 0]

restart ==
    /\ boots <= MaxRestarts
    /\ boots' = boots + 1
    /\ metrics' = bootstrap(metrics)
    /\ reqs' = [s \in DOMAIN reqs |-> Idle]
    /\ calls' = [s \in DOMAIN calls |-> <<>>]
    /\ UNCHANGED <<users, mailboxes, env, nextUuid, mails, resolved>>

NextRestart ==
    \/ \E s \in DOMAIN reqs, u \in Posted : post_user_endpoint(s, Bearer, u)
    \/ \E s \in DOMAIN reqs, id \in PathIds, u \in Posted :
          put_user_endpoint(s, Bearer, id, [u EXCEPT !.id = id])
    \/ \E s \in DOMAIN reqs, o \in RemoteOutcomes : mailcow_returns(s, o)
    \/ \E s \in DOMAIN reqs : respond(s)
    \/ restart

SpecRestart == Init /\ [][NextRestart]_vars

(***************************************************************************)
(* Two connections: while one handler awaits mailcow the event loop runs   *)
(* the other.  Every request is authorized; the bodies are those with a    *)
(* flagged address, no externalId and active true.                         *)
(***************************************************************************)
Connections == {1, 2}
ConcurrentBodies ==
    {u \in SCIMUser : /\ u.externalId = None /\ u.active
                      /\ get_primary_mail(u.emails) \in Addresses}

InitConcurrent ==
    /\ users = <<>>
    /\ metrics = [n \in Counters |-> 0]
    /\ mailboxes = [a \in Addresses |-> NoMailbox]
    /\ env = [ALLOW_DELETE |-> Unset, MAILCOW_DELETE_MAILBOX |-> Unset]
    /\ reqs = [s \in Connections |-> Idle]
    /\ calls = [s \in Connections |-> <<>>]
    /\ boots = 1
    /\ nextUuid = 0
    /\ mails = <<>>
    /\ resolved = NotRun

NextConcurrent ==
    \/ \E s \in DOMAIN reqs, u \in ConcurrentBodies \cap Posted :
          post_user_endpoint(s, Bearer, u)
    \/ \E s \in DOMAIN reqs, id \in PathIds, u \in ConcurrentBodies :
          put_user_endpoint(s, Bearer, id, u)
    \/ \E s \in DOMAIN reqs, id \in PathIds : delete_user_endpoint(s, Bearer, id)
    \/ \E s \in DOMAIN reqs, o \in RemoteOutcomes : mailcow_returns(s, o)
    \/ \E s \in DOMAIN reqs : respond(s)

SpecConcurrent == InitConcurrent /\ [][NextConcurrent]_vars

(***************************************************************************)
(* Properties.  A step of connection s is told by what reqs[s] was and     *)
(* what it becomes.                                                        *)
(***************************************************************************)
\* connection s takes a request of the endpoint and does not refuse it with 401
Accepted(s, op) ==
    /\ reqs[s] = Idle
    /\ reqs'[s].op = op
    /\ ~(reqs'[s].pc = "done" /\ reqs'[s].status = 401)
\* the body and the path id of the request that r (a frame or a response) is of
BodyOf(r) == IF r.pc = "done" THEN r.about ELSE r.user
IdOf(r) == IF r.pc = "done" THEN r.about.user_id ELSE r.user_id
\* the mailcow call that connection s awaited at pc returns and the handler ends
Ends(s, pc) == reqs[s].pc = pc /\ reqs'[s].pc = "done"
\* some record carries this userName, or this (present) externalId
Collides(externalId, userName) ==
    \E i \in 1..Len(users) :
        \/ users[i].userName = userName
        \/ externalId # None /\ users[i].scimId = externalId
\* the row a request body is stored as
Stored(id, mailcowId, user) ==
    [id |-> id, mailcowId |-> mailcowId, scimId |-> user.externalId,
     active |-> IF user.active THEN 1 ELSE 0, userName |-> user.userName,
     displayName |-> user.displayName, emails |-> [text |-> user.emails]]

\* C1: a Create whose email list is not empty (the address resolves to the flagged
\* entry, or else to the first entry) and whose keys collide with no record is
\* carried to the remote create, and when that succeeds the handler answers 201,
\* appends exactly one record, leaves the others as they were and adds 1 to
\* users_created and nothing to the other counters.
C1_CreateAddsOneRecord ==
    [][\A s \in DOMAIN reqs :
         /\ ( /\ Accepted(s, "create")
              /\ Len(BodyOf(reqs'[s]).emails) > 0
              /\ ~Collides(BodyOf(reqs'[s]).externalId, BodyOf(reqs'[s]).userName) )
            => reqs'[s].pc = "create_mailbox"
         /\ ( Ends(s, "create_mailbox") /\ reqs'[s].remote = "success" )
            => /\ reqs'[s].status = 201
               /\ Len(users') = Len(users) + 1
               /\ SubSeq(users', 1, Len(users)) = users
               /\ metrics' = [metrics EXCEPT !["users_created"] = @ + 1]
      ]_vars

C3_ConflictIs409 ==
    [][\A s \in DOMAIN reqs :
         ( /\ Accepted(s, "create")
           /\ Len(BodyOf(reqs'[s]).emails) > 0
           /\ Collides(BodyOf(reqs'[s]).externalId, BodyOf(reqs'[s]).userName) )
         => /\ reqs'[s].pc = "done" /\ reqs'[s].status = 409
            /\ UNCHANGED <<users, metrics, mailboxes>>
      ]_vars

\* C4: get_primary_mail returns the value of the first entry flagged primary, the
\* value of the first entry when none is flagged, and None for the empty list.
C4_Resolution ==
    resolved # NotRun =>
        resolved =
           IF mails = <<>> THEN None
           ELSE IF \E i \in 1..Len(mails) : mails[i].primary = True
           THEN mails[CHOOSE i \in 1..Len(mails) :
                         /\ mails[i].primary = True
                         /\ \A j \in 1..(i - 1) : mails[j].primary # True].value
           ELSE mails[1].value

\* C5: after an Update answered 200 the record whose id is the path id holds the
\* body's externalId, active, userName, displayName and emails and the mailbox
\* acknowledged for the resolved address, every other record is as it was, and
\* users_updated is 1 more.
C5_UpdateWritesPathRecord ==
    [][\A s \in DOMAIN reqs :
         ( /\ reqs[s].op = "update" /\ Awaiting(s)
           /\ reqs'[s].pc = "done" /\ reqs'[s].status = 200 )
         => /\ Len(users') = Len(users)
            /\ \A i \in 1..Len(users) :
                  users'[i] = IF users[i].id = reqs[s].user_id
                              THEN Stored(reqs[s].user_id, reqs[s].email, reqs[s].user)
                              ELSE users[i]
            /\ metrics' = [metrics EXCEPT !["users_updated"] = @ + 1]
      ]_vars

\* C6: an Update whose rename is a remote failure is answered 502, the users table
\* and the counters are unchanged, and the mailbox keeps the active and name that
\* the edit of the same Update set.
C6_FailedRenameIs502 ==
    [][\A s \in DOMAIN reqs :
         ( Ends(s, "rename_mailbox") /\ reqs'[s].remote # "success" )
         => /\ reqs'[s].status = 502
            /\ UNCHANGED <<users, metrics>>
            /\ mailboxes'[reqs[s].mailcow_id].active = reqs[s].user.active
            /\ mailboxes'[reqs[s].mailcow_id].name = reqs[s].user.displayName
      ]_vars

\* C7: with deletion allowed and MAILCOW_DELETE_MAILBOX off, the Delete of an
\* existing record is answered 204 with no remote call: the record is removed,
\* users_deleted is 1 more, the mailboxes are untouched.
C7_DeleteRemovesLocalRecord ==
    [][\A s \in DOMAIN reqs :
         ( /\ Accepted(s, "delete")
           /\ Truth(ALLOW_DELETE) /\ ~Truth(MAILCOW_DELETE_MAILBOX)
           /\ \E i \in 1..Len(users) : users[i].id = IdOf(reqs'[s]) )
         => /\ reqs'[s].pc = "done" /\ reqs'[s].status = 204
            /\ users' = SelectSeq(users, LAMBDA r : r.id # IdOf(reqs'[s]))
            /\ metrics' = [metrics EXCEPT !["users_deleted"] = @ + 1]
            /\ mailboxes' = mailboxes
      ]_vars

\* C8: with MAILCOW_DELETE_MAILBOX on, a Delete of an existing record that ends
\* without a successful remote delete is answered 502 and leaves the users table
\* and the counters as they were.
C8_FailedRemoteDeleteIs502 ==
    [][\A s \in DOMAIN reqs :
         ( /\ Accepted(s, "delete") \/ reqs[s].pc = "delete_mailbox"
           /\ reqs'[s].pc = "done"
           /\ Truth(ALLOW_DELETE) /\ Truth(MAILCOW_DELETE_MAILBOX)
           /\ \E i \in 1..Len(users) : users[i].id = IdOf(reqs'[s])
           /\ reqs'[s].remote # "success" )
         => /\ reqs'[s].status = 502
            /\ UNCHANGED <<users, metrics>>
      ]_vars

\* C9: with deletion allowed, the Delete of an id that no record has is answered
\* 404; no remote call is issued and neither table changes.
C9_DeleteUnknownIs404 ==
    [][\A s \in DOMAIN reqs :
         ( /\ Accepted(s, "delete")
           /\ Truth(ALLOW_DELETE)
           /\ ~\E i \in 1..Len(users) : users[i].id = IdOf(reqs'[s]) )
         => /\ reqs'[s].pc = "done" /\ reqs'[s].status = 404
            /\ UNCHANGED <<users, metrics, mailboxes>>
      ]_vars

\* C10: while nothing was deleted, a List is answered 200 with totalResults equal
\* to the number of Creates that succeeded.
C10_ListCountsCreates ==
    [][\A s \in DOMAIN reqs :
         ( Accepted(s, "list") /\ metrics["users_deleted"] = 0 )
         => /\ reqs'[s].status = 200
            /\ reqs'[s].out.totalResults = metrics["users_created"]
      ]_vars

\* C11: a record's mailcowId is the identifier mailcow last acknowledged for its
\* mailbox: the record a Create commits carries the address the create call
\* acknowledged; after a rename call succeeded for the record of the path id, that
\* record carries the address the rename acknowledged; and the mailcowId of a
\* record changes in no step other than the successful rename of its own Update.
C11_MailboxIdIsAcknowledged ==
    [][/\ \A s \in DOMAIN reqs :
            /\ ( Ends(s, "create_mailbox") /\ Len(users') = Len(users) + 1 )
               => users'[Len(users')].mailcowId = reqs[s].email
            /\ ( Ends(s, "rename_mailbox") /\ reqs'[s].remote = "success" )
               => \A i \in 1..Len(users') :
                     users'[i].id = reqs[s].user_id
                        => users'[i].mailcowId = reqs[s].email
       /\ \A i \in 1..Len(users), j \in 1..Len(users') :
            ( users'[j].id = users[i].id /\ users'[j].mailcowId # users[i].mailcowId )
            => \E s \in DOMAIN reqs :
                  /\ Ends(s, "rename_mailbox") /\ reqs'[s].remote = "success"
                  /\ reqs[s].user_id = users[i].id
      ]_vars

\* C12: each counter moves with its mutation and only with it: users_created grows
\* by the number of rows inserted, users_deleted by the number of rows removed,
\* users_updated by 1 exactly in a step in which a row is written with the body of
\* a running Update, and no row changes in a step that moves no counter.
C12_CountersCountMutations ==
    [][/\ metrics'["users_created"] - metrics["users_created"]
             = (IF Len(users') > Len(users) THEN Len(users') - Len(users) ELSE 0)
       /\ metrics'["users_deleted"] - metrics["users_deleted"]
             = (IF Len(users') < Len(users) THEN Len(users) - Len(users') ELSE 0)
       /\ metrics'["users_updated"] - metrics["users_updated"] \in {0, 1}
       /\ metrics'["users_updated"] # metrics["users_updated"]
             => \E s \in DOMAIN reqs :
                   /\ reqs[s].op = "update" /\ Awaiting(s)
                   /\ \E i \in 1..Len(users') :
                         users'[i] = Stored(users'[i].id, users'[i].mailcowId, reqs[s].user)
       /\ users' # users => metrics' # metrics
      ]_vars

\* C13: whichever of the four mailcow calls a handler awaited, an outcome other
\* than success (a non-200 status, an unparseable body, an empty list, a type other
\* than "success") ends the handler with 502 and with both tables as they were.
C13_RemoteFailureIs502 ==
    [][\A s \in DOMAIN reqs :
         ( /\ Awaiting(s) /\ reqs'[s].pc = "done"
           /\ reqs'[s].remote # "success" )
         => /\ reqs'[s].status = 502
            /\ UNCHANGED <<users, metrics>>
      ]_vars

\* C14: with ALLOW_DELETE set to a value that turns deletion off ("false", or
\* empty), every Delete is answered 403, for an id with a record and for one
\* without, and the tables and the mailboxes are untouched.
C14_DisabledDeleteIs403 ==
    [][\A s \in DOMAIN reqs :
         ( Accepted(s, "delete") /\ env.ALLOW_DELETE \in {"", "false"} )
         => /\ reqs'[s].pc = "done" /\ reqs'[s].status = 403
            /\ UNCHANGED <<users, metrics, mailboxes>>
      ]_vars

\* C17: an Update whose edit call is a remote failure is answered 502; it issues
\* no rename call and leaves the users table and the counters unchanged.
C17_FailedEditIs502 ==
    [][\A s \in DOMAIN reqs :
         ( /\ reqs[s].pc = "update_mailbox" /\ reqs'[s] # reqs[s]
           /\ calls'[s][1].outcome # "success" )
         => /\ reqs'[s].pc = "done" /\ reqs'[s].status = 502
            /\ Len(calls'[s]) = 1
            /\ UNCHANGED <<users, metrics>>
      ]_vars

\* C20: every Create whose create call succeeded is answered 201 and has committed
\* a record whose mailcowId is the mailbox it created, whatever other requests ran
\* while it awaited the call.
C20_NoOrphanedMailbox ==
    [][\A s \in DOMAIN reqs :
         ( Ends(s, "create_mailbox") /\ reqs'[s].remote = "success" )
         => /\ reqs'[s].status = 201
            /\ Len(users') = Len(users) + 1
            /\ users'[Len(users')].mailcowId = reqs[s].email
            /\ users'[Len(users')].userName = reqs[s].user.userName
      ]_vars

\* C15: a request to any /Users or /Groups endpoint whose authorization is not
\* the configured "Bearer <token>" is answered 401; the users table, the counters
\* and the mailboxes are the same after it as before, and no mailcow call is made.
C15_UnauthorizedIs401 ==
    [][\A s \in DOMAIN reqs, a \in Authorizations \ {Bearer} :
         ( /\ reqs[s] = Idle
           /\ \/ post_user_endpoint(s, a, AnyUser)
              \/ put_user_endpoint(s, a, AnyId, AnyUser)
              \/ delete_user_endpoint(s, a, AnyId)
              \/ get_user_endpoint(s, a, AnyId)
              \/ get_users_endpoint(s, a, 1, 100)
              \/ \E id \in GroupIds : get_group_endpoint(s, a, id)
              \/ get_groups_endpoint(s, a, 1, 100)
              \/ \E g \in SCIMGroup : post_group_endpoint(s, a, g)
              \/ \E id \in GroupIds, g \in SCIMGroup : patch_group_endpoint(s, a, id, g)
              \/ \E id \in GroupIds : delete_group_endpoint(s, a, id) )
         => /\ reqs'[s].pc = "done" /\ reqs'[s].status = 401
            /\ calls'[s] = <<>>
            /\ UNCHANGED <<users, metrics, mailboxes>>
      ]_vars

\* a Delete was refused with 401 while a record was stored
C15_Witness ==
    \E s \in DOMAIN reqs :
        /\ reqs[s].op = "delete" /\ reqs[s].pc = "done" /\ reqs[s].status = 401
        /\ Len(users) = 1

\* C16: in every step, a restart included, each of the three counters exists
\* afterwards and is at least what it was before.
C16_CountersNeverDecrease ==
    [][\A n \in Counters :
         /\ n \in DOMAIN metrics'
         /\ metrics'[n] >= metrics[n]
      ]_vars

\* the process was restarted after a Create and an Update had been counted
C16_Witness ==
    /\ boots = 2
    /\ metrics["users_created"] >= 1
    /\ metrics["users_updated"] >= 1

CallsInOrder(op, log) ==
    CASE op = "create" -> /\ Len(log) <= 1
                          /\ \A i \in 1..Len(log) : log[i].action = "create_mailbox"
      [] op = "update" -> /\ Len(log) <= 2
                          /\ Len(log) >= 1 => log[1].action = "update_mailbox"
                          /\ Len(log) = 2 => /\ log[2].action = "rename_mailbox"
                                             /\ log[1].outcome = "success"
      [] op = "delete" -> /\ Len(log) <= 1
                          /\ \A i \in 1..Len(log) : log[i].action = "delete_mailbox"
      [] OTHER -> log = <<>>

\* In this step: the calls are in order; a rename is issued only when the resolved
\* address differs from the mailcowId found stored, and an Update ends right after
\* a successful edit only when they are equal; a step that writes a table ends a
\* handler all of whose calls returned success.
OnceInOrderThenCommit ==
    /\ \A s \in DOMAIN reqs :
          /\ CallsInOrder(reqs'[s].op, calls'[s])
          /\ ( reqs[s].pc = "update_mailbox" /\ reqs'[s].pc = "rename_mailbox" )
             => reqs[s].email # reqs[s].mailcow_id
          /\ ( /\ reqs[s].pc = "update_mailbox" /\ reqs'[s].pc = "done"
               /\ calls'[s][1].outcome = "success" )
             => reqs[s].email = reqs[s].mailcow_id
    /\ ( users' # users \/ metrics' # metrics )
       => \E s \in DOMAIN reqs :
             /\ reqs'[s] # reqs[s] /\ reqs'[s].pc = "done"
             /\ \A i \in 1..Len(calls'[s]) : calls'[s][i].outcome = "success"

\* an Update answered 400 or 404, or ended by the KeyError of the address resolution
RejectedBeforeCalls(r) ==
    r.pc = "done" /\ (r.status \in {400, 404} \/ r.error = KeyError)

C21_UniquenessKeysStayUnique ==
    \A i \in Rows : \A j \in Rows :
        i # j => /\ users[i].userName # users[j].userName
                 /\ users[i].scimId # None => users[i].scimId # users[j].scimId

====
